---- MODULE Spec2Model ----
(***************************************************************************)
(* Model of the catalog updater, server/update_models.py.                  *)
(*                                                                         *)
(* One run of update_models is a sequence of steps: load the dataset,      *)
(* discover identifiers at the two catalogs, detect the new ones, enrich   *)
(* each of them with one request, append a record per usable answer, save  *)
(* the file and publish it with git.  The outside world (the two catalogs, *)
(* the enrichment API, the git commands, the environment variable holding  *)
(* the API key) answers nondeterministically from small sets of answers.   *)
(*                                                                         *)
(* Python values are written as strings: None is the marker None, a key    *)
(* that a mapping does not hold is the marker Missing, a JSON array or     *)
(* object standing where an identifier is expected is the marker JArray.   *)
(***************************************************************************)
EXTENDS Integers, Sequences, FiniteSets, TLC

\* ------------------------------------------------------------------ bounds

\* Number of runs of the updater that are followed.
MaxRuns == 2

\* ------------------------------------------------------------ Python values

None == "<None>"
Missing == "<missing>"
JArray == "<array>"
EmptyList == "[]"

\* bool(v) of a scalar: None, the empty string and the empty list are falsy.
Truthy(v) == v \notin {None, Missing, "", EmptyList}

\* hash(v) raises TypeError for a list or a dict.
Hashable(v) == v # JArray

\* a or b
Or(a, b) == IF Truthy(a) THEN a ELSE b

GetRaw(d, k) == d[k]   \* faulty: a key that is not there stays left out
\* d.get(k): None when the key is not there.
Get(d, k) == IF d[k] = Missing THEN None ELSE d[k]

\* d.get(k, default)
GetDefault(d, k, default) == IF d[k] = Missing THEN default ELSE d[k]

\* The elements of a sequence.
Range(s) == {s[i] : i \in 1..Len(s)}

\* One list holding the elements of S (list(S): the order is the hash order,
\* which the callers here discard again with set()).
RECURSIVE SetToSeq(_)
SetToSeq(S) ==
    IF S = {} THEN <<>>
    ELSE LET x == CHOOSE y \in S : TRUE IN <<x>> \o SetToSeq(S \ {x})

\* Every ordering of the elements of S.
Orderings(S) ==
    {s \in [1..Cardinality(S) -> S] : \A i, j \in 1..Cardinality(S) : i # j => s[i] # s[j]}

\* ------------------------------------------------- source A: OpenRouter API

ORFallback ==
    << "anthropic/claude-3-5-sonnet", "openai/gpt-4-turbo",
       "meta-llama/llama-3.1-405b-instruct", "google/gemini-pro-1.5",
       "mistralai/mistral-large" >>

\* An element of the listed array: a JSON object with optional id and name,
\* or something that is not an object.
Item(id, name) == [isdict |-> TRUE, id |-> id, name |-> name]
NonDictItem == [isdict |-> FALSE, id |-> Missing, name |-> Missing]

\* A parsed body.  type is the JSON type of the top-level value; has_data says
\* whether 'data' in data holds; data_type is the type of data['data']; items
\* are the elements that iterating over the chosen value gives.
Body(type, has_data, data_type, items) ==
    [type |-> type, has_data |-> has_data, data_type |-> data_type, items |-> items]
NoBody == Body("none", FALSE, "none", <<>>)

\* What requests.get gives: net is "error" for a transport failure or a
\* timeout, status the HTTP status, valid whether the body is JSON.
HttpResp(net, status, valid, body) ==
    [net |-> net, status |-> status, valid |-> valid, body |-> body]

\* Lines 70-75: names of the listed items.
RECURSIVE ExtractNames(_)
ExtractNames(items) ==
    IF items = <<>> THEN <<>>
    ELSE LET item == Head(items)
             model_id == Or(Get(item, "id"), Get(item, "name"))
         IN  (IF item.isdict /\ Truthy(model_id) THEN <<model_id>> ELSE <<>>)
               \o ExtractNames(Tail(items))

\* Whether the try block of get_openrouter_models raises (lines 59-75).
ORRaises(resp) ==
    \/ resp.net # "ok"                                  \* requests.get
    \/ resp.status >= 400                               \* raise_for_status
    \/ ~resp.valid                                      \* resp.json()
    \/ resp.body.type \notin {"object", "array", "string"}   \* 'data' in data
    \/ /\ resp.body.has_data                            \* for item in models
       /\ resp.body.data_type \notin {"object", "array", "string"}

get_openrouter_models(resp) ==
    IF ORRaises(resp) THEN ORFallback ELSE ExtractNames(resp.body.items)

\* ------------------------------------------------ source B: fal.ai listing

FalFallback ==
    << "flux-1-1-pro", "flux-kontext", "luma-ray2", "kling-video",
       "ideogram-v2", "minimax-video-01" >>

\* Limit on the identifiers taken from the page (line 135).
FalCap == 10

exclude_terms ==
    {"api", "docs", "about", "pricing", "login", "signup", "dashboard", "settings"}

\* str.lower on the identifiers that occur in the pages below.
Lower(s) ==
    CASE s = "API" -> "api"
      [] s = "Docs" -> "docs"
      [] OTHER -> s

\* The page text is a sequence of pieces; a piece that pattern pat of
\* patterns (lines 116-121) matches carries the captured group as name, a
\* piece that no pattern matches has pat 0.
Piece(pat, name) == [pat |-> pat, name |-> name]
patterns == <<1, 2, 3, 4>>

\* re.findall(pattern, text)
RECURSIVE Findall(_, _)
Findall(pattern, text) ==
    IF text = <<>> THEN <<>>
    ELSE (IF Head(text).pat = pattern THEN <<Head(text).name>> ELSE <<>>)
            \o Findall(pattern, Tail(text))

\* Lines 113-125
RECURSIVE AllMatches(_, _)
AllMatches(pats, text) ==
    IF pats = <<>> THEN <<>>
    ELSE Findall(Head(pats), text) \o AllMatches(Tail(pats), text)

\* Lines 129-132: the set that unique_models lists.
UniqueModels(text) ==
    {name \in Range(AllMatches(patterns, text)) :
        Lower(name) \notin exclude_terms /\ Len(name) > 2}

PageResp(net, status, text) == [net |-> net, status |-> status, text |-> text]

FalRaises(resp) == resp.net # "ok" \/ resp.status >= 400

\* The sets of identifiers that unique_models[:10] can hold: list(set(...))
\* lists the set in hash order, which differs from one process to the next,
\* so any FalCap of them can be the first FalCap.
Truncations(S) ==
    IF Cardinality(S) <= FalCap THEN {S}
    ELSE {T \in SUBSET S : Cardinality(T) = FalCap}

\* The lists get_falai_models can return for a response.
get_falai_models(resp) ==
    IF FalRaises(resp) THEN {FalFallback}
    ELSE {SetToSeq(T) : T \in Truncations(UniqueModels(resp.text))}

\* --------------------------------------------------- enrichment: Perplexity

InfoKeys ==
    { "provider", "release_date", "modality", "context_window", "parameters",
      "model_type", "swe_bench_verified", "livecodebench", "aime_2025", "math500",
      "mmlu", "intelligence_index", "humanity_last_exam", "gpqa",
      "input_price_per_million_tokens", "output_price_per_million_tokens",
      "summary", "notes", "community_comments", "other" }

\* The JSON object {}: no key is there.
NoKeys == [k \in InfoKeys |-> Missing]

\* A parsed JSON value: its type, its length (elements, characters, or the
\* number itself) and, for an object, its keys.
JValue(type, n, obj) == [type |-> type, n |-> n, obj |-> obj]
JObject(obj) == JValue("object", Cardinality({k \in InfoKeys : obj[k] # Missing}), obj)
EmptyDict == JObject(NoKeys)

\* bool(v) of a parsed value
JTruthy(v) == v.type # "null" /\ v.n # 0

\* The content string is a sequence of pieces: the marker ```json, the marker
\* ```, text that is not JSON, or the text of one JSON value.
FenceJson == [t |-> "fence_json", v |-> EmptyDict]
Fence == [t |-> "fence", v |-> EmptyDict]
Text == [t |-> "text", v |-> EmptyDict]
Json(v) == [t |-> "json", v |-> v]

\* '```json' in content
HasFenceJson(content) == \E i \in 1..Len(content) : content[i].t = "fence_json"

\* '```' in content (the marker ```json holds it too)
HasFence(content) == \E i \in 1..Len(content) : content[i].t \in {"fence", "fence_json"}

\* content.split(sep): sep is "fence_json" for '```json'; for '```' every
\* fence marker splits, and the word json of a ```json marker stays as text
\* at the head of the next part.
RECURSIVE Split(_, _)
Split(content, sep) ==
    IF content = <<>> THEN << <<>> >>
    ELSE LET rest == Split(Tail(content), sep)
             h == Head(content)
         IN  IF h.t = sep THEN << <<>> >> \o rest
             ELSE IF sep = "fence" /\ h.t = "fence_json"
                  THEN << <<>> >> \o << <<Text>> \o Head(rest) >> \o Tail(rest)
             ELSE << <<h>> \o Head(rest) >> \o Tail(rest)

\* Lines 224-227
Unwrap(content) ==
    IF HasFenceJson(content) THEN Split(Split(content, "fence_json")[2], "fence")[1]
    ELSE IF HasFence(content) THEN Split(Split(content, "fence")[2], "fence")[1]
    ELSE content

\* json.loads(text) raises JSONDecodeError unless the text is one JSON value.
JsonDecodeError(text) == ~(Len(text) = 1 /\ text[1].t = "json")
json_loads(text) == text[1].v

\* What requests.post gives.  valid: the body is JSON; has_choices: the body
\* has a non-empty choices; content_str: the message content is a string.
ChatResp(net, status, valid, has_choices, content_str, content) ==
    [net |-> net, status |-> status, valid |-> valid, has_choices |-> has_choices,
     content_str |-> content_str, content |-> content]

\* The outcome of a call: raised is "" or the exception that leaves the
\* function, value what it returns, posted whether the request was sent.
Returned(value) == [raised |-> "", value |-> value, posted |-> TRUE]
Raised(exc, posted) == [raised |-> exc, value |-> EmptyDict, posted |-> posted]

\* faulty: the lookup sits inside the try block, whose handler returns {}
CheckedKeyMasked(api_key, outcome) ==
    IF ~api_key THEN [raised |-> "", value |-> EmptyDict, posted |-> FALSE] ELSE outcome

\* Lines 156-158: the credential is looked up before anything is sent.
CheckedKey(api_key, outcome) ==
    IF ~api_key THEN Raised("RuntimeError", FALSE) ELSE outcome

\* Lines 212-241
PostAndParse(resp) ==
    IF resp.net # "ok" \/ resp.status >= 400 \/ ~resp.valid THEN Returned(EmptyDict)
    ELSE IF ~resp.has_choices THEN Returned(EmptyDict)
    ELSE IF ~resp.content_str THEN Returned(EmptyDict)    \* TypeError, line 239
    ELSE LET content == Unwrap(resp.content)
         IN  IF JsonDecodeError(content) THEN Returned(EmptyDict)
             ELSE Returned(json_loads(content))

call_perplexity(api_key, resp) == CheckedKey(api_key, PostAndParse(resp))

\* ------------------------------------------------------ record construction

\* Lines 277-301
MakeEntry(name, info) ==
    [ model_name |-> name,
      provider |-> Get(info, "provider"),
      release_date |-> Get(info, "release_date"),
      modality |-> Get(info, "modality"),
      context_window |-> Get(info, "context_window"),
      parameters |-> Get(info, "parameters"),
      model_type |-> IF Get(info, "modality") = "text" THEN "language" ELSE "media",
      performance |->
        [ swe_bench_verified |-> Get(info, "swe_bench_verified"),
          livecodebench |-> Get(info, "livecodebench"),
          aime_2025 |-> Get(info, "aime_2025"),
          math500 |-> Get(info, "math500"),
          mmlu |-> Get(info, "mmlu"),
          intelligence_index |-> Get(info, "intelligence_index"),
          humanity_last_exam |-> Get(info, "humanity_last_exam"),
          gpqa |-> Get(info, "gpqa") ],
      price |->
        [ input_per_million_tokens |-> Get(info, "input_price_per_million_tokens"),
          output_per_million_tokens |-> Get(info, "output_price_per_million_tokens") ],
      notes |-> Or(Get(info, "summary"), Get(info, "notes")),
      community_comments |-> GetDefault(info, "community_comments", EmptyList) ]

\* ------------------------------------------------------------- persistence

\* Lines 44-51: json.dump writes the whole list as one document and json.load
\* reads the same list back; both files hold only JSON values.
load_models(document) == document
save_models(models) == models

\* faulty: leaves out the last record of the list
ExistingNamesButLast(models) == {models[j].model_name : j \in 1..(Len(models) - 1)}

\* Line 266
ExistingNames(models) == {models[j].model_name : j \in 1..Len(models)}

\* Line 268: set(...) | set(...) hashes every element.
DiscoverRaises(a, b) == \E x \in Range(a) \cup Range(b) : ~Hashable(x)
Discovered(a, b) == Range(a) \cup Range(b)

\* Line 269: the new identifiers, in the iteration order of the set, which
\* is any order.
NewNameSet(discovered, existing_names) ==
    {name \in discovered : Truthy(name) /\ name \notin existing_names}
NewNames(discovered, existing_names) ==
    Orderings(NewNameSet(discovered, existing_names))

PrependEntry(models, entry) == <<entry>> \o models   \* faulty: inserts at the head
\* Line 302
AppendEntry(models, entry) == Append(models, entry)

\* Line 305
ShouldSave(names) == names # <<>>

\* Lines 251-255: the commands of commit_and_push, in order.
GitCommands == <<"config user.name", "config user.email", "add", "commit", "push">>

\* faulty: check=False, a failed command is followed by the next
AfterGitUnchecked(step, ok) == IF step < Len(GitCommands) THEN "git" ELSE "done"

\* subprocess.run(..., check=True): a command that fails raises
\* CalledProcessError, one that succeeds is followed by the next.
AfterGit(step, ok) ==
    IF ~ok THEN "error"
    ELSE IF step < Len(GitCommands) THEN "git" ELSE "done"

\* ------------------------------------------------------------ the answers

\* The dataset at the start: a record for some of the catalogs' identifiers.
SeedInfo ==
    [NoKeys EXCEPT !["provider"] = "seed", !["modality"] = "text", !["summary"] = "seeded"]
SeedNames ==
    << "anthropic/claude-3-5-sonnet", "openai/gpt-4-turbo",
       "meta-llama/llama-3.1-405b-instruct", "google/gemini-pro-1.5",
       "flux-1-1-pro", "flux-kontext", "luma-ray2", "kling-video", "ideogram-v2",
       "gpt-4", "m1" >>
SeedDataset == [j \in 1..Len(SeedNames) |-> MakeEntry(SeedNames[j], SeedInfo)]

ORNetError == HttpResp("error", 0, FALSE, NoBody)
\* {"data": [{"id": "m1"}, {"name": "m2"}]}
ORExample ==
    HttpResp("ok", 200, TRUE,
             Body("object", TRUE, "array", <<Item("m1", Missing), Item(Missing, "m2")>>))
\* [{"id": "gpt-4"}, {"id": "gpt-5", "name": "GPT 5"}]
ORArray ==
    HttpResp("ok", 200, TRUE,
             Body("array", FALSE, "none", <<Item("gpt-4", Missing), Item("gpt-5", "GPT 5")>>))
\* {"models": [...]}: iterating the object gives its key
ORNoData == HttpResp("ok", 200, TRUE, Body("object", FALSE, "none", <<NonDictItem>>))
\* {"data": [{"id": ["x"]}]}
ORArrayId ==
    HttpResp("ok", 200, TRUE, Body("object", TRUE, "array", <<Item(JArray, Missing)>>))

ORResponses == {ORNetError, ORExample, ORArray, ORNoData, ORArrayId}

FalNetError == PageResp("error", 0, <<>>)
\* A page naming eleven endpoints, ten of them in the seed dataset, among
\* navigation links.
FalBigPage ==
    PageResp("ok", 200,
      << Piece(2, "API"), Piece(1, "v2"), Piece(2, "pricing"),
         Piece(1, "flux-1-1-pro"), Piece(0, ""), Piece(1, "flux-kontext"),
         Piece(2, "luma-ray2"), Piece(2, "kling-video"), Piece(2, "docs"),
         Piece(4, "ideogram-v2"), Piece(1, "minimax-video-01"), Piece(3, "gpt-4"),
         Piece(3, "anthropic/claude-3-5-sonnet"), Piece(3, "openai/gpt-4-turbo"),
         Piece(4, "meta-llama/llama-3.1-405b-instruct"),
         Piece(4, "google/gemini-pro-1.5"), Piece(1, "flux-kontext") >>)
FalResponses == {FalNetError, FalBigPage}

\* {"provider": "OpenAI", "modality": "text"}
InfoOpenAI == [NoKeys EXCEPT !["provider"] = "OpenAI", !["modality"] = "text"]
InfoImage ==
    [NoKeys EXCEPT !["modality"] = "image", !["summary"] = "an image model",
                   !["community_comments"] = "[nice]", !["context_window"] = None]

NoContent == <<>>
ChatNetError == ChatResp("error", 0, FALSE, FALSE, FALSE, NoContent)
ChatStatus == ChatResp("ok", 500, FALSE, FALSE, FALSE, NoContent)
ChatNoChoices == ChatResp("ok", 200, TRUE, FALSE, FALSE, NoContent)
ChatNotJson == ChatResp("ok", 200, TRUE, TRUE, TRUE, <<Text>>)
ChatFencedNotJson == ChatResp("ok", 200, TRUE, TRUE, TRUE, <<FenceJson, Text, Fence>>)
ChatNull == ChatResp("ok", 200, TRUE, TRUE, TRUE, <<Json(JValue("null", 0, NoKeys))>>)
ChatList == ChatResp("ok", 200, TRUE, TRUE, TRUE, <<Json(JValue("array", 1, NoKeys))>>)
ChatFenced ==
    ChatResp("ok", 200, TRUE, TRUE, TRUE, <<Text, FenceJson, Json(JObject(InfoOpenAI)), Fence>>)
ChatBare == ChatResp("ok", 200, TRUE, TRUE, TRUE, <<Json(JObject(InfoImage))>>)
NoResp == ChatResp("none", 0, FALSE, FALSE, FALSE, NoContent)

ChatResponses ==
    { ChatNetError, ChatStatus, ChatNoChoices, ChatNotJson, ChatFencedNotJson,
      ChatNull, ChatList, ChatFenced, ChatBare }

\* ---------------------------------------------------------------- the state

VARIABLES
    file,        \* the dataset file: the list of records it holds
    api_key,     \* whether PERPLEXITY_API_KEY is set in the environment
    run,         \* number of runs started
    pc,          \* where the run is: "idle", "loaded", "discovered", "loop",
                 \* "git", "done" (returned) or "error" (an exception left it)
    err,         \* the exception that ended the run, or ""
    existing,    \* update_models: the list loaded and appended to
    or_resp,     \* the answer of source A in this run
    fal_resp,    \* the answer of source B in this run
    or_names,    \* what get_openrouter_models returned; line 268 is its only
                 \* use, and the list is dropped when the loop goes on
    fal_names,   \* what get_falai_models returned, likewise
    new_names,   \* update_models: the new identifiers, in iteration order
    i,           \* position of the loop in new_names
    resp,        \* the answer to the latest enrichment request
    posts,       \* enrichment requests sent in this run
    git_step,    \* position in GitCommands of the command to run next
    git_log,     \* the git commands run in this run, with their outcome
    loaded,      \* history: the list as it was loaded in this run
    added,       \* history: the records constructed in this run, in order
    written,     \* history: whether this run wrote the file
    prev_clean,  \* history: there was a run before this one, it returned, and
                 \* each of its new identifiers gave a record
    same         \* history: both catalogs answer in this run as in the one before

vars ==
    << file, api_key, run, pc, err, existing, or_resp, fal_resp, or_names, fal_names,
       new_names, i, resp, posts, git_step, git_log, loaded, added, written,
       prev_clean, same >>

Init ==
    /\ file = SeedDataset
    /\ api_key \in BOOLEAN
    /\ run = 0
    /\ pc = "idle"
    /\ err = ""
    /\ existing = <<>>
    /\ or_resp = ORNetError
    /\ fal_resp = FalNetError
    /\ or_names = <<>>
    /\ fal_names = <<>>
    /\ new_names = <<>>
    /\ i = 1
    /\ resp = NoResp
    /\ posts = 0
    /\ git_step = 1
    /\ git_log = <<>>
    /\ loaded = <<>>
    /\ added = <<>>
    /\ written = FALSE
    /\ prev_clean = FALSE
    /\ same = FALSE

\* The scheduler starts a run when none is going on: line 265.
Load ==
    /\ pc \in {"idle", "done", "error"}
    /\ run < MaxRuns
    /\ run' = run + 1
    /\ existing' = load_models(file)
    /\ loaded' = load_models(file)
    /\ prev_clean' = (pc = "done" /\ Len(added) = Len(new_names))
    /\ same' = FALSE
    /\ pc' = "loaded"
    /\ err' = ""
    /\ or_names' = <<>>
    /\ fal_names' = <<>>
    /\ new_names' = <<>>
    /\ i' = 1
    /\ resp' = NoResp
    /\ posts' = 0
    /\ git_step' = 1
    /\ git_log' = <<>>
    /\ added' = <<>>
    /\ written' = FALSE
    /\ UNCHANGED <<file, api_key, or_resp, fal_resp>>

\* Line 268, the two calls: each catalog answers and each function returns.
Discover ==
    /\ pc = "loaded"
    /\ \E ra \in ORResponses, rb \in FalResponses :
         \E b \in get_falai_models(rb) :
            /\ same' = (run > 1 /\ ra = or_resp /\ rb = fal_resp)
            /\ or_resp' = ra
            /\ fal_resp' = rb
            /\ or_names' = get_openrouter_models(ra)
            /\ fal_names' = b
    /\ pc' = "discovered"
    /\ UNCHANGED << file, api_key, run, err, existing, new_names, i, resp, posts, git_step,
                    git_log, loaded, added, written, prev_clean >>

\* Lines 266-269: the two lists are made sets and the new names are detected.
Detect ==
    /\ pc = "discovered"
    /\ IF DiscoverRaises(or_names, fal_names)
       THEN /\ pc' = "error"
            /\ err' = "TypeError"
            /\ UNCHANGED new_names
       ELSE /\ new_names' \in NewNames(Discovered(or_names, fal_names), ExistingNames(existing))
            /\ pc' = "loop"
            /\ UNCHANGED err
    /\ UNCHANGED << file, api_key, run, existing, or_resp, fal_resp, or_names, fal_names, i,
                    resp, posts, git_step, git_log, loaded, added, written, prev_clean, same >>

\* Lines 271-303: one turn of the loop, the API answering from answers.
EnrichFrom(answers) ==
    /\ pc = "loop"
    /\ i <= Len(new_names)
    /\ \E r \in answers :
         LET name == new_names[i]
             out == call_perplexity(api_key, r)
             info == out.value
         IN  /\ resp' = IF out.posted THEN r ELSE NoResp
             /\ posts' = IF out.posted THEN posts + 1 ELSE posts
             /\ IF out.raised # ""
                THEN /\ pc' = "error"
                     /\ err' = out.raised
                     /\ UNCHANGED <<existing, added, i>>
                ELSE IF ~JTruthy(info)                      \* line 273
                THEN /\ i' = i + 1
                     /\ UNCHANGED <<pc, err, existing, added>>
                ELSE IF info.type # "object"                \* info.get, line 279
                THEN /\ pc' = "error"
                     /\ err' = "AttributeError"
                     /\ UNCHANGED <<existing, added, i>>
                ELSE /\ existing' = AppendEntry(existing, MakeEntry(name, info.obj))
                     /\ added' = Append(added, MakeEntry(name, info.obj))
                     /\ i' = i + 1
                     /\ UNCHANGED <<pc, err>>
    /\ or_names' = <<>>
    /\ fal_names' = <<>>
    /\ UNCHANGED << file, api_key, run, or_resp, fal_resp, new_names, git_step, git_log,
                    loaded, written, prev_clean, same >>

Enrich == EnrichFrom(ChatResponses)

\* Lines 305-310: after the loop.
Save ==
    /\ pc = "loop"
    /\ i > Len(new_names)
    /\ IF ShouldSave(new_names)
       THEN /\ file' = save_models(existing)
            /\ written' = TRUE
            /\ pc' = "git"
       ELSE /\ pc' = "done"
            /\ UNCHANGED <<file, written>>
    /\ resp' = NoResp
    /\ or_names' = <<>>
    /\ fal_names' = <<>>
    /\ UNCHANGED << api_key, run, err, existing, or_resp, fal_resp, new_names, i, posts,
                    git_step, git_log, loaded, added, prev_clean, same >>

\* Lines 251-255: one command of commit_and_push, which succeeds or fails.
Git ==
    /\ pc = "git"
    /\ \E ok \in BOOLEAN :
         /\ git_log' = Append(git_log, [cmd |-> GitCommands[git_step], ok |-> ok])
         /\ pc' = AfterGit(git_step, ok)
         /\ err' = IF ok THEN err ELSE "CalledProcessError"
         /\ git_step' = IF pc' = "git" THEN git_step + 1 ELSE git_step
    /\ UNCHANGED << file, api_key, run, existing, or_resp, fal_resp, or_names, fal_names,
                    new_names, i, resp, posts, loaded, added, written, prev_clean, same >>

Next == Load \/ Discover \/ Detect \/ Enrich \/ Save \/ Git

Spec == Init /\ [][Next]_vars

\* ------------------------------------------------------------------ claims

Names(models) == [j \in 1..Len(models) |-> models[j].model_name]
Distinct(s) == \A j, k \in 1..Len(s) : j # k => s[j] # s[k]
Last(s) == s[Len(s)]

\* The run got past the loop (line 305 was reached).
PastLoop == pc \in {"git", "done"} \/ (pc = "error" /\ err = "CalledProcessError")

\* Detection (line 269) has just happened: the loop has not begun.
JustDetected == pc = "loop" /\ i = 1 /\ git_log = <<>> /\ ~written

\* The run got past detection (line 269 was reached).
PastDetect == pc \in {"loop", "git", "done"} \/ (pc = "error" /\ err # "TypeError")

\* C1: in a run that gets past the loop, the dataset file is rewritten, and
\* publication attempted, if and only if the run constructed at least one
\* record.
C1_WriteIffRecord ==
    PastLoop => /\ written <=> added # <<>>
                /\ (pc = "git" \/ git_log # <<>>) <=> added # <<>>

\* C2: when detection has happened, the new identifiers are those of source A or source B that are not a
\* model_name of the loaded dataset and are not falsy, each once; with gpt-4
\* in the dataset and gpt-4 and gpt-5 listed by source A, gpt-5 is new and
\* gpt-4 is not.
C2_NewNames ==
    JustDetected =>
        /\ Range(new_names) =
             {x \in Range(or_names) \cup Range(fal_names) :
                 /\ x \notin {"", None}
                 /\ \A j \in 1..Len(loaded) : loaded[j].model_name # x}
        /\ Distinct(new_names)
        /\ (or_resp = ORArray /\ run = 1) =>
             ("gpt-5" \in Range(new_names) /\ "gpt-4" \notin Range(new_names))

C2_Witness ==
    /\ pc = "loop"
    /\ "gpt-4" \in Range(Names(loaded))
    /\ {"gpt-4", "gpt-5"} \subseteq Range(or_names)
    /\ new_names = <<"gpt-5">>

\* C3: when the run before returned with a record for each of its new
\* identifiers and both catalogs answer in this run as they did in that one,
\* this run appends no record.
C3_Idempotent == (run >= 2 /\ prev_clean /\ same /\ PastDetect) => added = <<>>

\* Whether an answer of the enrichment API holds a usable answer: a
\* non-empty JSON object, bare or in a fenced block.
Usable(r) ==
    /\ r.net = "ok" /\ r.status < 400 /\ r.valid /\ r.has_choices /\ r.content_str
    /\ ~JsonDecodeError(Unwrap(r.content))
    /\ json_loads(Unwrap(r.content)).type = "object"
    /\ json_loads(Unwrap(r.content)).n > 0

\* C4: after an enrichment request whose answer is not usable, the run is
\* still in the loop, at the next identifier, and the dataset has no record
\* for the identifier asked about.
C4_SkipUnusable ==
    (resp # NoResp /\ ~Usable(resp)) =>
        /\ pc = "loop"
        /\ i >= 2
        /\ new_names[i - 1] \notin Range(Names(existing))

\* C5: the model_name values of the list in memory and of the dataset file
\* are pairwise distinct.
C5_Unique == Distinct(Names(existing)) /\ Distinct(Names(file))

C5_Witness ==
    /\ run = 2
    /\ written
    /\ added # <<>>
    /\ Len(loaded) > Len(SeedDataset)

\* C6: during a run the list in memory is the loaded list followed by the
\* records constructed so far, whose names follow the order of new_names;
\* once the run has written the file, the file holds that list.
C6_AppendOnly ==
    (pc \notin {"idle", "loaded"}) =>
        /\ existing = loaded \o added
        /\ written => file = loaded \o added
        /\ ~written => file = loaded
        /\ \A j, k \in 1..Len(added) : j < k =>
             \E m, n \in 1..Len(new_names) :
                /\ m < n
                /\ new_names[m] = added[j].model_name
                /\ new_names[n] = added[k].model_name

C6_Witness == written /\ Len(added) = 2 /\ Len(loaded) > 0

\* C7: git commands run only after the file was written in the same run, in
\* the order of GitCommands, each after the success of the one before; a
\* failed one ends the run in error, nothing runs after it, and the file
\* holds the updated list.
C7_Publication ==
    /\ (pc = "git" \/ git_log # <<>>) => written
    /\ \A j \in 1..Len(git_log) : git_log[j].cmd = GitCommands[j]
    /\ \A j \in 1..Len(git_log) : j < Len(git_log) => git_log[j].ok
    /\ (git_log # <<>> /\ ~Last(git_log).ok) =>
          /\ pc = "error"
          /\ err = "CalledProcessError"
          /\ file = existing
    /\ (pc = "done" /\ written) =>
          /\ Len(git_log) = Len(GitCommands)
          /\ Last(git_log).ok

C7_Witness ==
    /\ pc = "error"
    /\ Len(git_log) = 4
    /\ Last(git_log) = [cmd |-> "commit", ok |-> FALSE]
    /\ added # <<>>
    /\ file = loaded \o added

\* C8: without the API key, a run with a new identifier ends in the
\* configuration error at the first call, no request was sent, no record
\* added, the file not written and no git command run; the configuration
\* error arises in no other run.
C8_MissingKey ==
    /\ (~api_key /\ PastDetect /\ new_names # <<>>) =>
          /\ (pc = "loop" /\ i = 1) \/ (pc = "error" /\ err = "RuntimeError")
          /\ posts = 0
          /\ added = <<>>
          /\ ~written
          /\ git_log = <<>>
          /\ file = loaded
    /\ (~api_key /\ PastDetect /\ new_names = <<>>) => pc \in {"loop", "done"}
    /\ err = "RuntimeError" => (~api_key /\ new_names # <<>>)

C8_Witness ==
    /\ ~api_key
    /\ pc = "error"
    /\ err = "RuntimeError"
    /\ new_names # <<>>
    /\ posts = 0
    /\ file = loaded

\* C10: each discovery function returns the fallback list when its request
\* fails, source A's example body gives m1 and m2, and no run ends between
\* discovery and detection.
C10_DiscoveryNeverFatal ==
    /\ pc = "discovered" =>
          /\ ORRaises(or_resp) => or_names = ORFallback
          /\ FalRaises(fal_resp) => fal_names = FalFallback
          /\ or_resp = ORExample => Range(or_names) = {"m1", "m2"}
    /\ ~(pc = "error" /\ err = "TypeError")

\* ------------------------------------------- record construction in detail

\* The answers of the enrichment API to one request, over a wider range of
\* JSON objects: each combination of the values below, bare, in a ```json
\* block after a line of text, and in a ``` block.
WideInfos ==
    { [NoKeys EXCEPT !["provider"] = pr, !["modality"] = mo, !["summary"] = su,
                     !["notes"] = no, !["community_comments"] = cc, !["mmlu"] = mm,
                     !["input_price_per_million_tokens"] = ip] :
        pr \in {Missing, "OpenAI"},
        mo \in {Missing, None, "text", "image"},
        su \in {Missing, None, "", "a summary"},
        no \in {Missing, "a note"},
        cc \in {Missing, None, EmptyList, "[nice]"},
        mm \in {Missing, "88.7"},
        ip \in {Missing, "3"} }

Wrappings(p) == { <<p>>, <<Text, FenceJson, p, Fence>>, <<Fence, p, Fence>> }

WideChatResponses ==
    { ChatResp("ok", 200, TRUE, TRUE, TRUE, c) :
        c \in UNION {Wrappings(Json(JObject(info))) : info \in WideInfos} }
      \cup ChatResponses

\* The head of the loop of a first run in which gpt-5 is the one new
\* identifier: source A listed gpt-4 and gpt-5, source B's page was cut to
\* ten endpoints of the dataset.
RecordInit ==
    /\ file = SeedDataset
    /\ api_key = TRUE
    /\ run = 1
    /\ pc = "loop"
    /\ err = ""
    /\ existing = load_models(SeedDataset)
    /\ or_resp = ORArray
    /\ fal_resp = FalBigPage
    /\ or_names = get_openrouter_models(ORArray)
    /\ fal_names \in {b \in get_falai_models(FalBigPage) : "minimax-video-01" \notin Range(b)}
    /\ new_names \in NewNames(Discovered(or_names, fal_names), ExistingNames(existing))
    /\ i = 1
    /\ resp = NoResp
    /\ posts = 0
    /\ git_step = 1
    /\ git_log = <<>>
    /\ loaded = load_models(SeedDataset)
    /\ added = <<>>
    /\ written = FALSE
    /\ prev_clean = FALSE
    /\ same = FALSE

EnrichWide == EnrichFrom(WideChatResponses)

RecordNext == EnrichWide \/ Save \/ Git

RecordSpec == RecordInit /\ [][RecordNext]_vars

\* The JSON value an answer carries, and whether the answer is a non-empty
\* JSON object, bare or wrapped in one of the three ways.
Payloads(r) == {k \in 1..Len(r.content) : r.content[k].t = "json"}
PayloadOf(r) == r.content[CHOOSE k \in Payloads(r) : TRUE].v
GoodAnswer(r) ==
    /\ r.net = "ok" /\ r.status < 400 /\ r.valid /\ r.has_choices /\ r.content_str
    /\ Cardinality(Payloads(r)) = 1
    /\ r.content \in Wrappings(Json(PayloadOf(r)))
    /\ PayloadOf(r).type = "object"
    /\ \E k \in InfoKeys : PayloadOf(r).obj[k] # Missing

RecordFields ==
    { "model_name", "provider", "release_date", "modality", "context_window",
      "parameters", "model_type", "performance", "price", "notes",
      "community_comments" }
PerformanceFields ==
    { "swe_bench_verified", "livecodebench", "aime_2025", "math500", "mmlu",
      "intelligence_index", "humanity_last_exam", "gpqa" }
PriceFields == {"input_per_million_tokens", "output_per_million_tokens"}

\* The value of a field copied from key k: the key's value, None if the key
\* is not there.
Copied(info, k) == IF info[k] = Missing THEN None ELSE info[k]

\* What the record and the answer's object agree on in both readings of C9.
RecordShape(e, info, name) ==
    /\ DOMAIN e = RecordFields
    /\ DOMAIN e.performance = PerformanceFields
    /\ DOMAIN e.price = PriceFields
    /\ e.model_name = name
    /\ \A k \in {"provider", "release_date", "modality", "context_window", "parameters"} :
          e[k] = Copied(info, k)
    /\ \A k \in PerformanceFields : e.performance[k] = Copied(info, k)
    /\ e.price.input_per_million_tokens = Copied(info, "input_price_per_million_tokens")
    /\ e.price.output_per_million_tokens = Copied(info, "output_price_per_million_tokens")
    /\ e.model_type = IF info["modality"] = "text" THEN "language" ELSE "media"

\* C9 as stated: after a usable answer the record appended for the identifier
\* has every field, model_name the identifier, a field whose key the answer
\* lacks None, model_type derived from modality, notes the summary or, when
\* the summary is absent, the notes; the fenced example gives provider OpenAI
\* and model_type language.
C9_RecordAsStated ==
    (resp # NoResp /\ GoodAnswer(resp)) =>
        /\ pc = "loop" /\ i >= 2 /\ existing # <<>>
        /\ LET e == Last(existing)
               info == PayloadOf(resp).obj
           IN  /\ RecordShape(e, info, new_names[i - 1])
               /\ e.notes = IF info["summary"] \in {Missing, None}
                            THEN Copied(info, "notes") ELSE info["summary"]
               /\ e.community_comments = Copied(info, "community_comments")

\* C9 amended: as above, but notes is the summary unless the summary is
\* absent, null or empty, and then the notes; community_comments is the empty
\* list when the answer lacks the key.
C9_Record ==
    (resp # NoResp /\ GoodAnswer(resp)) =>
        /\ pc = "loop" /\ i >= 2 /\ existing # <<>>
        /\ LET e == Last(existing)
               info == PayloadOf(resp).obj
           IN  /\ RecordShape(e, info, new_names[i - 1])
               /\ e.notes = IF info["summary"] \in {Missing, None, ""}
                            THEN Copied(info, "notes") ELSE info["summary"]
               /\ e.community_comments =
                     IF info["community_comments"] = Missing THEN EmptyList
                     ELSE info["community_comments"]
        /\ resp = ChatFenced =>
              (Last(existing).provider = "OpenAI" /\ Last(existing).model_type = "language")

C9_Witness ==
    /\ resp = ChatFenced
    /\ pc = "loop"
    /\ i = 2
    /\ Last(existing).model_name = "gpt-5"
    /\ Last(existing).provider = "OpenAI"
    /\ Last(existing).model_type = "language"
    /\ Last(existing).release_date = None

====
